---- MODULE Spec2Model ----
(***************************************************************************)
(* py-html-checker: html_checker/validator.py, ValidatorInterface.         *)
(*                                                                         *)
(* Two specifications share this module.                                   *)
(*   SpecFn  the building blocks taken one call at a time: compile_options,*)
(*           get_validator_command, manage_options, execute_validator, and *)
(*           page_command of html_checker/cli/page.py.                     *)
(*   Spec    validate(): option merge, reduction of the paths, the report  *)
(*           store, and the batched or split sequence of process runs.     *)
(*                                                                         *)
(* Python values are encoded as follows.                                   *)
(*   option value   [kind, toks]: None is kind "none"; a string s is kind  *)
(*                  "str" with toks = <<s>>; a list is kind "list" with    *)
(*                  toks its items.                                        *)
(*   OrderedDict    a sequence of [name, value] with distinct names, in    *)
(*                  insertion order.                                       *)
(*   optional dict  [none, items]: none = TRUE is Python's None.           *)
(*   bytes          a sequence of byte values; text a sequence of code     *)
(*                  points.                                                *)
(***************************************************************************)
EXTENDS Integers, Sequences, FiniteSets, TLC

VARIABLES
    INTERPRETER,            \* class attribute ValidatorInterface.INTERPRETER
    VALIDATOR,              \* class attribute ValidatorInterface.VALIDATOR
    call,                   \* SpecFn: the last call made and what it gave
    in_paths,               \* the caller's list of paths
    interpreter_options,    \* the caller's interpreter option mapping (or None)
    tool_options,           \* the caller's tool option mapping (or None)
    tool,                   \* what the external tool reports for each document
    pc,                     \* where the running validate call stands
    split,                  \* the running call's split argument
    opts,                   \* validate's local (interpreter_options, tool_options)
    paths,                  \* validate's local paths, after reduce_unique
    registry,               \* report.registry of the running call
    idx,                    \* split mode: position of the for loop in paths
    content,                \* output of the last validate_item, not yet added
    runs,                   \* per split value: the commands handed to
                            \* execute_validator and how each ended
    adds,                   \* per split value: the report.add calls that
                            \* have returned
    result                  \* outcome of the finished call, per split value

fnvars == <<INTERPRETER, VALIDATOR, call>>
valvars == <<in_paths, interpreter_options, tool_options, tool, pc, split, opts,
             paths, registry, idx, content, runs, adds, result>>
vars == <<INTERPRETER, VALIDATOR, call, in_paths, interpreter_options,
          tool_options, tool, pc, split, opts, paths, registry, idx, content,
          runs, adds, result>>

(***************************************************************************)
(* Bounds of the model.                                                    *)
(***************************************************************************)
MaxOpts == 2        \* entries of an option mapping given to compile_options
MaxPaths == 2       \* paths given to get_validator_command / validate
MaxOut == 2         \* bytes of output captured from a failing process

(***************************************************************************)
(* Generic helpers.                                                        *)
(***************************************************************************)
Range(s) == {s[i] : i \in 1..Len(s)}

SeqsUpTo(S, n) == UNION {[1..k -> S] : k \in 0..n}

(***************************************************************************)
(* Option values and ordered mappings.                                     *)
(***************************************************************************)
PyNone == [kind |-> "none", toks |-> <<>>]
PyStr(s) == [kind |-> "str", toks |-> <<s>>]
PyList(items) == [kind |-> "list", toks |-> items]

\* Python truthiness of a name (a string).
NameTruthy(name) == name # ""

\* Python truthiness of an option value: None, "" and [] are falsy.
ValueTruthy(value) ==
    CASE value.kind = "none" -> FALSE
      [] value.kind = "str" -> value.toks[1] # ""
      [] OTHER -> value.toks # <<>>

NoneDict == [none |-> TRUE, items |-> <<>>]
Dict(items) == [none |-> FALSE, items |-> items]

\* Truthiness of an optional mapping: None and the empty mapping are falsy.
DictTruthy(d) == ~d.none /\ d.items # <<>>

HasKey(items, name) == \E i \in 1..Len(items) : items[i].name = name

GetValue(items, name) ==
    items[CHOOSE i \in 1..Len(items) : items[i].name = name].value

\* d[name] = value on an OrderedDict: a new key goes last, a known key keeps
\* its place.
SetItem(items, name, value) ==
    IF HasKey(items, name)
    THEN [i \in 1..Len(items) |->
            IF items[i].name = name
            THEN [name |-> name, value |-> value] ELSE items[i]]
    ELSE Append(items, [name |-> name, value |-> value])

(***************************************************************************)
(* compile_options                                                         *)
(***************************************************************************)
\* One turn of the for loop: opts after the pair (name, value).
CompileItemAlwaysNamed(opts_, name, value) ==
    LET named == Append(opts_, name)
    IN  IF ValueTruthy(value) THEN named \o value.toks ELSE named

CompileItem(opts_, name, value) ==
    LET named == IF NameTruthy(name) THEN Append(opts_, name) ELSE opts_
    IN  IF ValueTruthy(value)
        THEN IF value.kind = "list"
             THEN named \o value.toks
             ELSE Append(named, value.toks[1])
        ELSE named

RECURSIVE CompileFrom(_, _, _)
CompileFrom(items, i, opts_) ==
    IF i > Len(items)
    THEN opts_
    ELSE CompileFrom(items, i + 1,
                     CompileItem(opts_, items[i].name, items[i].value))

CompileOptions(items) == CompileFrom(items, 1, <<>>)

(***************************************************************************)
(* get_interpreter_part, get_validator_command                             *)
(***************************************************************************)
HTML_CHECKER_APPLICATION == "/site/html_checker"

\* VALIDATOR.format(HTML_CHECKER=...): the placeholder is replaced, any other
\* text is kept.
FormatValidator(template) ==
    IF template = "{HTML_CHECKER}/vnujar/vnu.jar"
    THEN HTML_CHECKER_APPLICATION \o "/vnujar/vnu.jar"
    ELSE template

GetInterpreterPartJarFirst(interpreter, options) ==
    LET a1 == IF interpreter # "" THEN <<interpreter>> ELSE <<>>
        a2 == IF interpreter = "java" THEN Append(a1, "-jar") ELSE a1
    IN  IF DictTruthy(options) THEN a2 \o CompileOptions(options.items) ELSE a2

GetInterpreterPart(interpreter, options) ==
    LET a1 == IF interpreter # "" THEN <<interpreter>> ELSE <<>>
        a2 == IF DictTruthy(options)
              THEN a1 \o CompileOptions(options.items) ELSE a1
    IN  IF interpreter = "java" THEN Append(a2, "-jar") ELSE a2

GetValidatorCommand(interpreter, validator, paths_, io, to) ==
    LET a1 == GetInterpreterPart(interpreter, io)
        a2 == IF validator # ""
              THEN Append(a1, FormatValidator(validator)) ELSE a1
        a3 == IF DictTruthy(to)
              THEN a2 \o CompileOptions(to.items) ELSE a2
    IN  a3 \o paths_

(***************************************************************************)
(* execute_validator                                                       *)
(***************************************************************************)
IsCont(b) == b >= 128 /\ b <= 191

\* bytes.decode("utf-8"), strict: the code points, or a failure.  i is the
\* position of the next byte, text the code points decoded so far.
RECURSIVE Utf8From(_, _, _)
Utf8From(bytes, i, text) ==
    LET n == Len(bytes)
        b == bytes[i]
        bad == [ok |-> FALSE, text |-> <<>>]
        c(k) == bytes[i + k]
        conts(k) == i + k <= n /\ \A j \in 1..k : IsCont(c(j))
    IN  IF i > n THEN [ok |-> TRUE, text |-> text]
        ELSE IF b < 128
             THEN Utf8From(bytes, i + 1, Append(text, b))
        ELSE IF b >= 194 /\ b <= 223
             THEN IF conts(1)
                  THEN Utf8From(bytes, i + 2,
                                Append(text, (b - 192) * 64 + (c(1) - 128)))
                  ELSE bad
        ELSE IF b >= 224 /\ b <= 239
             THEN IF conts(2) /\ (b = 224 => c(1) >= 160)
                             /\ (b = 237 => c(1) <= 159)
                  THEN Utf8From(bytes, i + 3,
                                Append(text, (b - 224) * 4096
                                             + (c(1) - 128) * 64
                                             + (c(2) - 128)))
                  ELSE bad
        ELSE IF b >= 240 /\ b <= 244
             THEN IF conts(3) /\ (b = 240 => c(1) >= 144)
                             /\ (b = 244 => c(1) <= 143)
                  THEN Utf8From(bytes, i + 4,
                                Append(text, (b - 240) * 262144
                                             + (c(1) - 128) * 4096
                                             + (c(2) - 128) * 64
                                             + (c(3) - 128)))
                  ELSE bad
        ELSE bad

Utf8Decode(bytes) == Utf8From(bytes, 1, <<>>)

\* str(e) of the FileNotFoundError raised for the executable command[1].
OSErrorText(filename) ==
    "[Errno 2] No such file or directory: '" \o filename \o "'"

MsgUnreachable == "Unable to reach interpreter to run validator: "
MsgFailed == "Validator execution failed: "

\* What subprocess.check_output does with the command is the environment's
\* choice: proc.kind is "notfound" (the executable cannot be found) or "exit"
\* (the process ran, ended with proc.code and wrote proc.output).
\* The outcome: a returned value, or a raised exception.
ExecuteValidator(command, proc) ==
    IF proc.kind = "notfound"
    THEN [kind |-> "ValidatorError",
          value |-> [prefix |-> MsgUnreachable,
                     detail |-> OSErrorText(command[1])]]
    ELSE IF proc.code # 0
         THEN LET d == Utf8Decode(proc.output)
              IN  IF d.ok
                  THEN [kind |-> "ValidatorError",
                        value |-> [prefix |-> MsgFailed, detail |-> d.text]]
                  ELSE [kind |-> "UnicodeDecodeError", value |-> proc.output]
         ELSE [kind |-> "return", value |-> proc.output]

(***************************************************************************)
(* manage_options                                                          *)
(***************************************************************************)
USER_AGENT == "html_checker.USER_AGENT"

SetDefaultOverwrites(items, name, value) == SetItem(items, name, value)

\* if name not in tool_options: tool_options[name] = value
SetDefault(items, name, value) ==
    IF ~HasKey(items, name) THEN SetItem(items, name, value) ELSE items

\* The pair returned.  A mapping given by the caller is the object that is
\* filled in and returned; None is replaced by a new empty mapping.
ManageOptions(io_given, to_given) ==
    LET io == IF io_given.none THEN <<>> ELSE io_given.items
        t0 == IF to_given.none THEN <<>> ELSE to_given.items
        t1 == SetDefault(t0, "--format", PyStr("json"))
        t2 == SetDefault(t1, "--exit-zero-always", PyNone)
        t3 == SetDefault(t2, "--user-agent", PyStr(USER_AGENT))
    IN  [interpreter_options |-> Dict(io), tool_options |-> Dict(t3)]

\* The caller's object after the call: the returned mapping when it is the
\* same object, None when None was given.
CallerAfter(given, returned) == IF given.none THEN given ELSE returned

(***************************************************************************)
(* SpecFn: one call at a time.                                             *)
(***************************************************************************)
DefaultInterpreter == "java"
DefaultValidator == "{HTML_CHECKER}/vnujar/vnu.jar"

\* The values the class attributes take in the test suite.
Interpreters == {"", DefaultInterpreter, "dummycli"}
Validators == {"", "dummytool", DefaultValidator}

OptNames == {"", "--foo", "-a"}
OptValues == {PyNone, PyStr("bar"), PyStr(""), PyList(<<>>),
              PyList(<<"x", "y">>)}
OptPairs == [name : OptNames, value : OptValues]

DistinctNames(items) ==
    \A i, j \in 1..Len(items) : i # j => items[i].name # items[j].name

\* The option mappings given to compile_options.
OptionItems == {s \in SeqsUpTo(OptPairs, MaxOpts) : DistinctNames(s)}

\* The option mappings given to get_validator_command.
CmdInterpreterOptions ==
    {NoneDict, Dict(<<>>),
     Dict(<<[name |-> "-Xss512k", value |-> PyNone]>>),
     Dict(<<[name |-> "-v", value |-> PyStr("3")]>>)}
CmdToolOptions ==
    {NoneDict, Dict(<<>>),
     Dict(<<[name |-> "--foo", value |-> PyStr("bar")]>>),
     ManageOptions(NoneDict, NoneDict).tool_options}
CmdPaths == {"foo.html", "bar.html"}

\* The tool option mappings given to manage_options: any of the three keys
\* it fills in and one it does not know, in any order, each with a value of
\* the caller's.
MaxGiven == 3
GivenNames == {"--format", "--exit-zero-always", "--user-agent", "--no-stream"}
GivenValues == {PyNone, PyStr("custom")}
GivenToolOptions ==
    {NoneDict} \cup
    {Dict(s) : s \in {t \in SeqsUpTo([name : GivenNames, value : GivenValues],
                                     MaxGiven) : DistinctNames(t)}}
GivenInterpreterOptions ==
    {NoneDict, Dict(<<[name |-> "-Xss512k", value |-> PyNone]>>)}

\* What a process may do: the byte values are "E", the two bytes of U+00E9
\* in UTF-8, and the one byte of U+00E9 in Latin-1.
OutBytes == {69, 195, 169, 233}
ProcBehaviours ==
    {[kind |-> "notfound", code |-> 0, output |-> <<>>]} \cup
    [kind : {"exit"}, code : {0, 1}, output : SeqsUpTo(OutBytes, MaxOut)]

NoCall == [fn |-> "none"]

CallCompileOptions ==
    /\ call.fn = "none"
    /\ \E items \in OptionItems :
          call' = [fn |-> "compile_options",
                   options |-> items,
                   options_after |-> items,
                   ret |-> CompileOptions(items)]
    /\ UNCHANGED <<INTERPRETER, VALIDATOR>>
    /\ UNCHANGED valvars

CallGetValidatorCommand ==
    /\ call.fn = "none"
    /\ \E ps \in SeqsUpTo(CmdPaths, MaxPaths),
          io \in CmdInterpreterOptions, to \in CmdToolOptions :
          call' = [fn |-> "get_validator_command",
                   paths |-> ps,
                   interpreter_options |-> io,
                   tool_options |-> to,
                   ret |-> GetValidatorCommand(INTERPRETER, VALIDATOR, ps,
                                               io, to)]
    /\ UNCHANGED <<INTERPRETER, VALIDATOR>>
    /\ UNCHANGED valvars

CallManageOptions ==
    /\ call.fn = "none"
    /\ \E io \in GivenInterpreterOptions, to \in GivenToolOptions :
          LET r == ManageOptions(io, to)
          IN  call' = [fn |-> "manage_options",
                       interpreter_options |-> io,
                       tool_options |-> to,
                       interpreter_options_after |->
                           CallerAfter(io, r.interpreter_options),
                       tool_options_after |-> CallerAfter(to, r.tool_options),
                       ret |-> r]
    /\ UNCHANGED <<INTERPRETER, VALIDATOR>>
    /\ UNCHANGED valvars

CallExecuteValidator ==
    /\ call.fn = "none"
    /\ \E proc \in ProcBehaviours :
          LET command == GetValidatorCommand(INTERPRETER, VALIDATOR,
                                             <<"foo.html">>, NoneDict,
                                             NoneDict)
          IN  call' = [fn |-> "execute_validator",
                       command |-> command,
                       proc |-> proc,
                       ret |-> ExecuteValidator(command, proc)]
    /\ UNCHANGED <<INTERPRETER, VALIDATOR>>
    /\ UNCHANGED valvars

(***************************************************************************)
(* cli/page.py: page_command.                                              *)
(***************************************************************************)
\* The keyword arguments ValidatorInterface.__init__(self) takes.
InitKeywords == {}

\* ValidatorInterface(**keywords): the object, or Python's TypeError for a
\* keyword the constructor does not take.
Construct(keywords) ==
    IF keywords \subseteq InitKeywords THEN "object" ELSE "TypeError"

\* The class page_command watches for.
CatchedException(safe) ==
    IF safe THEN "HtmlCheckerBaseException" ELSE "HtmlCheckerUnexpectedException"

\* isinstance(error, class_): the errors of html_checker.exceptions derive
\* from HtmlCheckerBaseException, and nothing raises the unexpected one.
IsInstance(error, class_) ==
    /\ class_ = "HtmlCheckerBaseException"
    /\ error \in {"ValidatorError", "MalformedPayload"}

\* What v.validate does once it is called: a report, a classified error, or
\* an error of another kind.
ValidateOutcomes ==
    {[kind |-> "returned", error |-> ""],
     [kind |-> "raised", error |-> "ValidatorError"],
     [kind |-> "raised", error |-> "MalformedPayload"],
     [kind |-> "raised", error |-> "UnicodeDecodeError"]}

\* What exporter.build is given in the except clause.
AllBucket(error) ==
    [name |-> "all", findings |-> <<[type |-> "critical", message |-> error]>>]

ReportBuilt == [name |-> "report", findings |-> <<>>]

\* page_command from the construction of the validator to
\* exporter.release(): how the command ends, what the exporter was given
\* to build, whether it was released.
PageCommand(safe, outcome) ==
    IF Construct({"exception_class"}) = "TypeError"
    THEN [ended |-> "raised", error |-> "TypeError", validated |-> FALSE,
          built |-> <<>>, released |-> FALSE]
    ELSE IF outcome.kind = "returned"
    THEN [ended |-> "returned", error |-> "", validated |-> TRUE,
          built |-> <<ReportBuilt>>, released |-> TRUE]
    ELSE IF IsInstance(outcome.error, CatchedException(safe))
    THEN [ended |-> "returned", error |-> "", validated |-> TRUE,
          built |-> <<AllBucket(outcome.error)>>, released |-> TRUE]
    ELSE [ended |-> "raised", error |-> outcome.error, validated |-> TRUE,
          built |-> <<>>, released |-> FALSE]

CallPageCommand ==
    /\ call.fn = "none"
    /\ \E safe \in BOOLEAN, outcome \in ValidateOutcomes :
          call' = [fn |-> "page_command",
                   safe |-> safe,
                   validate |-> outcome,
                   ret |-> PageCommand(safe, outcome)]
    /\ UNCHANGED <<INTERPRETER, VALIDATOR>>
    /\ UNCHANGED valvars

(***************************************************************************)
(* Locations and the filesystem.                                           *)
(***************************************************************************)
Urls == {"http://x"}
\* "a.html" is a relative path of the file "/w/a.html"; nothing is stored
\* at "/w/nope.html".
Locations == Urls \cup {"a.html", "/w/a.html", "/w/nope.html"}

IsUrl(path) == path \in Urls

\* os.path.abspath
AbsPath(path) == IF path = "a.html" THEN "/w/a.html" ELSE path

\* os.path.exists
Exists(path) == AbsPath(path) = "/w/a.html"

IsMissing(path) == ~IsUrl(path) /\ ~Exists(path)

(***************************************************************************)
(* reduce_unique (html_checker/utils.py)                                   *)
(***************************************************************************)
RECURSIVE ReduceFrom(_, _, _)
ReduceFrom(items, i, kept) ==
    IF i > Len(items)
    THEN kept
    ELSE ReduceFrom(items, i + 1,
                    IF items[i] \in Range(kept)
                    THEN kept ELSE Append(kept, items[i]))

ReduceUnique(items) == ReduceFrom(items, 1, <<>>)

(***************************************************************************)
(* ReportStore (html_checker/reporter.py)                                  *)
(***************************************************************************)
None == [none |-> TRUE, items |-> <<>>]
Findings(items) == [none |-> FALSE, items |-> items]

MissingFinding ==
    [type |-> "critical", message |-> "File path does not exists."]

\* The key a location is stored under: a URL as given, a local path in its
\* absolute form.
RegistryKey(path) == IF IsUrl(path) THEN path ELSE AbsPath(path)

\* The value a location starts with.
SeedValue(path) ==
    IF IsMissing(path) THEN Findings(<<MissingFinding>>) ELSE None

\* The list of (key, value) pairs, one per path, in the order of the paths.
BuildInitialRegistry(paths_) ==
    [i \in 1..Len(paths_) |->
        [key |-> RegistryKey(paths_[i]), value |-> SeedValue(paths_[i])]]

RegKeys(reg) == [i \in 1..Len(reg) |-> reg[i].key]

HasRegKey(reg, key) == \E i \in 1..Len(reg) : reg[i].key = key

RegValue(reg, key) == reg[CHOOSE i \in 1..Len(reg) : reg[i].key = key].value

RegSet(reg, key, value) ==
    IF HasRegKey(reg, key)
    THEN [i \in 1..Len(reg) |->
            IF reg[i].key = key THEN [key |-> key, value |-> value] ELSE reg[i]]
    ELSE Append(reg, [key |-> key, value |-> value])

\* OrderedDict(pairs): a key met again keeps its place and takes the later
\* value.
RECURSIVE OrderedDictFrom(_, _, _)
OrderedDictFrom(pairs, i, reg) ==
    IF i > Len(pairs)
    THEN reg
    ELSE OrderedDictFrom(pairs, i + 1, RegSet(reg, pairs[i].key, pairs[i].value))

\* ReportStore(paths).registry
NewReportStore(paths_) == OrderedDictFrom(BuildInitialRegistry(paths_), 1, <<>>)

\* A message without its "url" item.
StripUrl(msg) == [type |-> msg.type, message |-> msg.message]

\* One message of the payload: appended under its url when that is a key of
\* the registry, dropped otherwise.
AddMessage(reg, msg) ==
    IF HasRegKey(reg, msg.url)
    THEN LET old == RegValue(reg, msg.url)
         IN  RegSet(reg, msg.url, Findings(Append(old.items, StripUrl(msg))))
    ELSE reg

RECURSIVE AddFrom(_, _, _)
AddFrom(reg, messages, i) ==
    IF i > Len(messages)
    THEN reg
    ELSE AddFrom(AddMessage(reg, messages[i]), messages, i + 1)

\* Decoding the captured output: an object holding a messages array, or
\* the MalformedPayload error when the output is no JSON text or holds no
\* such array.
ParseReport(content_) ==
    IF content_.form = "object"
    THEN [kind |-> "return", value |-> content_.messages]
    ELSE [kind |-> "MalformedPayload", value |-> <<>>]

\* report.add(content)
ReportAdd(reg, content_) == AddFrom(reg, ParseReport(content_).value, 1)

(***************************************************************************)
(* The external tool.                                                      *)
(***************************************************************************)
\* The document a location names, which is also the url the tool reports it
\* under.
DocumentOf(path) == IF IsUrl(path) THEN path ELSE AbsPath(path)

Documents == {DocumentOf(l) : l \in Locations}

M1 == [type |-> "error", message |-> "m1"]
M2 == [type |-> "info", message |-> "m2"]
ToolReports == {<<>>, <<M1>>, <<M1, M2>>}

\* A message about a document no location names.
StrayMessage == [url |-> "http://other", type |-> "error", message |-> "m0"]

\* The messages of one document, each tagged with its url.
MessagesOf(t, path) ==
    [i \in 1..Len(t[DocumentOf(path)]) |->
        [url |-> DocumentOf(path),
         type |-> t[DocumentOf(path)][i].type,
         message |-> t[DocumentOf(path)][i].message]]

RECURSIVE Blocks(_, _, _)
Blocks(t, item_paths, i) ==
    IF i > Len(item_paths)
    THEN <<>>
    ELSE MessagesOf(t, item_paths[i]) \o Blocks(t, item_paths, i + 1)

Reverse(s) == [i \in 1..Len(s) |-> s[Len(s) + 1 - i]]

\* The payload of a run over item_paths: the documents' messages, in the
\* order of the paths or in the opposite order, with or without a stray
\* message in front.
Payload(t, item_paths, backwards, stray) ==
    LET ms == Blocks(t, IF backwards THEN Reverse(item_paths) ELSE item_paths, 1)
    IN  [form |-> "object",
         messages |-> IF stray THEN <<StrayMessage>> \o ms ELSE ms]

\* Output that is not the expected object: text that is no JSON, and a
\* JSON object without messages.
MalformedPayloads ==
    {[form |-> "text", messages |-> <<>>],
     [form |-> "nomessages", messages |-> <<>>]}

\* What the process of one validate_item may do.
FailingProcs ==
    {[kind |-> "notfound", code |-> 0, output |-> <<>>],
     [kind |-> "exit", code |-> 1, output |-> <<69>>],
     [kind |-> "exit", code |-> 1, output |-> <<233>>]}

\* What a process that ends with status 0 may write.
Payloads(t, item_paths) ==
    {Payload(t, item_paths, b, s) : b \in BOOLEAN, s \in BOOLEAN}
        \cup MalformedPayloads

(***************************************************************************)
(* validate                                                                *)
(***************************************************************************)
NoResult == [kind |-> "none", value |-> <<>>]
NoContent == [form |-> "object", messages |-> <<>>]

\* The paths the report store is built from.
ReportArgLastOnly(paths_) ==
    IF paths_ = <<>> THEN paths_ ELSE <<paths_[Len(paths_)]>>

ReportArgFirstOnly(paths_) == IF paths_ = <<>> THEN paths_ ELSE <<paths_[1]>>

ReportArg(paths_) == paths_

\* paths = reduce_unique(paths): validate's local paths from the caller's.
ReducedPathsAsGiven(given) == given

ReducedPaths(given) == ReduceUnique(given)

\* The paths handed to validate_item: all of them at once, or the one the
\* for loop stands at.
ItemPathsAlwaysAll(paths_, sp, i) == paths_

ItemPathsFromLast(paths_, sp, i) == IF sp THEN <<paths_[Len(paths_) + 1 - i]>> ELSE paths_

ItemPaths(paths_, sp, i) == IF sp THEN <<paths_[i]>> ELSE paths_

\* An exception of validate_item is not caught: the call ends with it.
PropagateReturnsPartial(outcome, reg) == [kind |-> "returned", value |-> reg]

Propagate(outcome, reg) == [kind |-> "raised", value |-> outcome]

\* An exception of report.add is not caught either.
PropagateAddReturnsSeed(outcome, reg) == [kind |-> "returned", value |-> reg]

PropagateAdd(outcome, reg) == [kind |-> "raised", value |-> outcome]

\* report.add(content) after validate_item.
MergeForgotten(reg, content_) == reg

Merge(reg, content_) == ReportAdd(reg, content_)

Validate(sp) ==
    /\ pc = "idle"
    /\ result[sp].kind = "none"
    /\ LET r == ManageOptions(interpreter_options, tool_options)
           ps == ReducedPaths(in_paths)
       IN  /\ interpreter_options' =
                  CallerAfter(interpreter_options, r.interpreter_options)
           /\ tool_options' = CallerAfter(tool_options, r.tool_options)
           /\ opts' = r
           /\ paths' = ps
           /\ registry' = NewReportStore(ReportArg(ps))
           /\ pc' = IF sp /\ ps = <<>> THEN "return" ELSE "exec"
    /\ split' = sp
    /\ idx' = 1
    /\ content' = NoContent
    /\ runs' = [runs EXCEPT ![sp] = <<>>]
    /\ adds' = [adds EXCEPT ![sp] = 0]
    /\ UNCHANGED <<in_paths, tool, result>>
    /\ UNCHANGED fnvars

\* validate_item for the paths at hand, the process behaving as proc.
ItemStep(command, proc) ==
    LET outcome == ExecuteValidator(command, proc)
        run == [command |-> command, kind |-> outcome.kind]
    IN  /\ runs' = [runs EXCEPT ![split] = Append(@, run)]
        /\ IF outcome.kind = "return"
           THEN /\ content' = outcome.value
                /\ pc' = "add"
                /\ UNCHANGED <<registry, result>>
           ELSE /\ result' = [result EXCEPT
                                 ![split] = Propagate(outcome, registry)]
                /\ pc' = "idle"
                /\ registry' = <<>>
                /\ UNCHANGED content

ValidateItem ==
    /\ pc = "exec"
    /\ LET item == ItemPaths(paths, split, idx)
           command == GetValidatorCommand(INTERPRETER, VALIDATOR, item,
                                          opts.interpreter_options,
                                          opts.tool_options)
       IN  \/ \E proc \in FailingProcs : ItemStep(command, proc)
           \/ \E payload \in Payloads(tool, item) :
                 ItemStep(command,
                          [kind |-> "exit", code |-> 0, output |-> payload])
    /\ UNCHANGED <<in_paths, interpreter_options, tool_options, tool, split,
                   opts, paths, idx, adds>>
    /\ UNCHANGED fnvars

AddContent ==
    /\ pc = "add"
    /\ LET parsed == ParseReport(content)
       IN  IF parsed.kind = "return"
           THEN /\ registry' = Merge(registry, content)
                /\ adds' = [adds EXCEPT ![split] = @ + 1]
                /\ IF split /\ idx < Len(paths)
                   THEN /\ idx' = idx + 1
                        /\ pc' = "exec"
                   ELSE /\ pc' = "return"
                        /\ UNCHANGED idx
                /\ UNCHANGED result
           ELSE /\ result' = [result EXCEPT
                                 ![split] = PropagateAdd(parsed, registry)]
                /\ pc' = "idle"
                /\ registry' = <<>>
                /\ UNCHANGED <<idx, adds>>
    /\ UNCHANGED <<in_paths, interpreter_options, tool_options, tool, split,
                   opts, paths, content, runs>>
    /\ UNCHANGED fnvars

Return ==
    /\ pc = "return"
    /\ result' = [result EXCEPT ![split] = [kind |-> "returned",
                                            value |-> registry]]
    /\ pc' = "idle"
    /\ registry' = <<>>
    /\ UNCHANGED <<in_paths, interpreter_options, tool_options, tool, split,
                   opts, paths, idx, content, runs, adds>>
    /\ UNCHANGED fnvars

(***************************************************************************)
(* The two specifications.                                                 *)
(***************************************************************************)
\* What the caller may hand to validate as tool options.
CallerToolOptions ==
    {NoneDict, Dict(<<[name |-> "--user-agent", value |-> PyStr("custom")]>>)}

ValIdle ==
    /\ pc = "idle"
    /\ split = FALSE
    /\ opts = [interpreter_options |-> NoneDict, tool_options |-> NoneDict]
    /\ paths = <<>>
    /\ registry = <<>>
    /\ idx = 1
    /\ content = NoContent
    /\ runs = [sp \in BOOLEAN |-> <<>>]
    /\ adds = [sp \in BOOLEAN |-> 0]
    /\ result = [sp \in BOOLEAN |-> NoResult]

Init ==
    /\ INTERPRETER = DefaultInterpreter
    /\ VALIDATOR = DefaultValidator
    /\ call = NoCall
    /\ in_paths \in SeqsUpTo(Locations, MaxPaths)
    /\ interpreter_options = NoneDict
    /\ tool_options \in CallerToolOptions
    /\ tool \in [Documents -> ToolReports]
    /\ ValIdle

Next ==
    \/ \E sp \in BOOLEAN : Validate(sp)
    \/ ValidateItem
    \/ AddContent
    \/ Return

Spec == Init /\ [][Next]_vars

InitFn ==
    /\ INTERPRETER \in Interpreters
    /\ VALIDATOR \in Validators
    /\ call = NoCall
    /\ in_paths = <<>>
    /\ interpreter_options = NoneDict
    /\ tool_options = NoneDict
    /\ tool = [d \in Documents |-> <<>>]
    /\ ValIdle

NextFn ==
    \/ CallCompileOptions
    \/ CallGetValidatorCommand
    \/ CallManageOptions
    \/ CallExecuteValidator
    \/ CallPageCommand

SpecFn == InitFn /\ [][NextFn]_vars

(***************************************************************************)
(* Properties of the building blocks (SpecFn).                             *)
(***************************************************************************)
RECURSIVE Concat(_)
Concat(seqs) == IF seqs = <<>> THEN <<>> ELSE Head(seqs) \o Concat(Tail(seqs))

\* The tokens of one pair when every value other than None is emitted.
PairTokensIfPresent(pair) ==
    (IF pair.name # "" THEN <<pair.name>> ELSE <<>>)
    \o (IF pair.value.kind # "none" THEN pair.value.toks ELSE <<>>)

\* The tokens of one pair when None and the empty string are not emitted.
PairTokensIfNonEmpty(pair) ==
    (IF pair.name # "" THEN <<pair.name>> ELSE <<>>)
    \o (IF pair.value.kind = "none" \/ pair.value = PyStr("")
        THEN <<>> ELSE pair.value.toks)

\* C10 as stated: compile_options gives, for the pairs in insertion order,
\* the name when it is non-empty, then the value whenever one is present (one
\* token, or the items of a list), and leaves its input as it was.
C10_FlattenIfPresent ==
    call.fn = "compile_options" =>
        /\ call.ret = Concat([i \in 1..Len(call.options) |->
                                 PairTokensIfPresent(call.options[i])])
        /\ call.options_after = call.options

\* C10 amended: compile_options gives, for the pairs in insertion order, the
\* name when it is non-empty, then the value when it is neither None nor the
\* empty string (one token, or the items of a list, none for an empty list),
\* and leaves its input as it was.
C10_FlattenIfNonEmpty ==
    call.fn = "compile_options" =>
        /\ call.ret = Concat([i \in 1..Len(call.options) |->
                                 PairTokensIfNonEmpty(call.options[i])])
        /\ call.options_after = call.options

C10_Witness ==
    /\ call.fn = "compile_options"
    /\ call.options = <<[name |-> "--foo", value |-> PyList(<<"x", "y">>)],
                        [name |-> "-a", value |-> PyStr("")]>>
    /\ call.ret = <<"--foo", "x", "y", "-a">>

\* The flattening of an optional mapping.
Flat(d) == IF d.none THEN <<>> ELSE CompileOptions(d.items)

\* C9: the command is the interpreter name (when not empty), the flattened
\* interpreter options, "-jar" exactly when the interpreter is "java", the
\* tool path (when the configured one is not empty), the flattened tool
\* options, and last the locations in the order given.
C9_CommandOrder ==
    call.fn = "get_validator_command" =>
        /\ call.ret =
              (IF INTERPRETER # "" THEN <<INTERPRETER>> ELSE <<>>)
              \o Flat(call.interpreter_options)
              \o (IF INTERPRETER = "java" THEN <<"-jar">> ELSE <<>>)
              \o (IF VALIDATOR # "" THEN <<FormatValidator(VALIDATOR)>> ELSE <<>>)
              \o Flat(call.tool_options)
              \o call.paths
        /\ SubSeq(call.ret, Len(call.ret) - Len(call.paths) + 1, Len(call.ret))
              = call.paths

C9_Witness ==
    /\ call.fn = "get_validator_command"
    /\ call.ret = <<"java", "-Xss512k", "-jar",
                    "/site/html_checker/vnujar/vnu.jar", "--foo", "bar",
                    "foo.html", "bar.html">>

ManagedKeys == {"--format", "--exit-zero-always", "--user-agent"}

DefaultOf(name) ==
    CASE name = "--format" -> PyStr("json")
      [] name = "--exit-zero-always" -> PyNone
      [] OTHER -> PyStr(USER_AGENT)

\* C7: after manage_options the tool options hold --format,
\* --exit-zero-always and --user-agent; a key the caller gave keeps the
\* caller's value, a key the caller did not give has its default, whatever
\* subset of the three the caller gave, None included.
C7_DefaultsMerged ==
    call.fn = "manage_options" =>
        \A k \in ManagedKeys :
            /\ HasKey(call.ret.tool_options.items, k)
            /\ GetValue(call.ret.tool_options.items, k) =
                  IF ~call.tool_options.none /\ HasKey(call.tool_options.items, k)
                  THEN GetValue(call.tool_options.items, k)
                  ELSE DefaultOf(k)

C7_Witness ==
    /\ call.fn = "manage_options"
    /\ call.tool_options =
          Dict(<<[name |-> "--user-agent", value |-> PyStr("custom")],
                 [name |-> "--format", value |-> PyNone]>>)
    /\ call.ret.tool_options =
          Dict(<<[name |-> "--user-agent", value |-> PyStr("custom")],
                 [name |-> "--format", value |-> PyNone],
                 [name |-> "--exit-zero-always", value |-> PyNone]>>)

\* C6 as stated: execute_validator returns the captured output when the
\* process ends with status 0; raises ValidatorError "Unable to reach
\* interpreter to run validator: " + the OS error text when the executable
\* cannot be found; raises ValidatorError "Validator execution failed: " +
\* the captured output when the process ends with another status; nothing
\* else happens in these three cases.
C6_ThreeOutcomes ==
    call.fn = "execute_validator" =>
        CASE call.proc.kind = "notfound" ->
                /\ call.ret.kind = "ValidatorError"
                /\ call.ret.value.prefix = MsgUnreachable
                /\ call.ret.value.detail = OSErrorText(call.command[1])
          [] call.proc.kind = "exit" /\ call.proc.code = 0 ->
                /\ call.ret.kind = "return"
                /\ call.ret.value = call.proc.output
          [] OTHER ->
                /\ call.ret.kind = "ValidatorError"
                /\ call.ret.value.prefix = MsgFailed
                /\ call.ret.value.detail = Utf8Decode(call.proc.output).text

\* C13 as stated: after manage_options the interpreter-option and
\* tool-option mappings the caller passed in hold the same keys and values
\* as before the call.
C13_CallerInputUntouched ==
    call.fn = "manage_options" =>
        /\ call.interpreter_options_after = call.interpreter_options
        /\ call.tool_options_after = call.tool_options

\* C15 as stated: when validate raises a classified validator error, the
\* page command with safe mode on ends normally, the exporter having been
\* given the one critical finding under "all" and released; with safe mode
\* off the command ends with that error.
C15_SafeMode ==
    (/\ call.fn = "page_command"
     /\ call.validate.kind = "raised"
     /\ IsInstance(call.validate.error, "HtmlCheckerBaseException"))
    => IF call.safe
       THEN /\ call.ret.ended = "returned"
            /\ call.ret.built = <<AllBucket(call.validate.error)>>
            /\ call.ret.released
       ELSE /\ call.ret.ended = "raised"
            /\ call.ret.error = call.validate.error

(***************************************************************************)
(* Properties of validate (Spec).                                          *)
(***************************************************************************)
Modes == BOOLEAN

Returned(sp) == result[sp].kind = "returned"

FirstIndex(xs, x) == CHOOSE i \in 1..Len(xs) : xs[i] = x /\ \A j \in 1..(i - 1) : xs[j] # x

\* ks holds the distinct elements of xs, each once, in the order in which
\* they first occur in xs.
DistinctInFirstOrder(ks, xs) ==
    /\ \A i, j \in 1..Len(ks) : i # j => ks[i] # ks[j]
    /\ Range(ks) = Range(xs)
    /\ \A i, j \in 1..Len(ks) :
          i < j => FirstIndex(xs, ks[i]) < FirstIndex(xs, ks[j])

C2_SplitEqualsBatched ==
    (/\ Returned(TRUE)
     /\ Returned(FALSE)
     /\ \A i \in 1..Len(in_paths) : ~IsMissing(in_paths[i]))
    => result[TRUE].value = result[FALSE].value

C2_Witness ==
    /\ in_paths = <<"http://x", "a.html">>
    /\ tool["http://x"] = <<M1, M2>>
    /\ tool["/w/a.html"] = <<M1>>
    /\ Returned(TRUE)
    /\ Returned(FALSE)
    /\ result[TRUE].value =
          <<[key |-> "http://x", value |-> Findings(<<M1, M2>>)],
            [key |-> "/w/a.html", value |-> Findings(<<M1>>)]>>

\* C3 as stated: no command handed to execute_validator, in either mode,
\* has a missing local path among its arguments, and the missing path is
\* still a key of the returned Registry.
C3_MissingNeverSent ==
    \A sp \in Modes :
        /\ \A j \in 1..Len(runs[sp]) :
              \A k \in 1..Len(runs[sp][j].command) :
                  runs[sp][j].command[k] \in Locations
                      => ~IsMissing(runs[sp][j].command[k])
        /\ Returned(sp) =>
              \A i \in 1..Len(in_paths) :
                  IsMissing(in_paths[i])
                      => HasRegKey(result[sp].value, RegistryKey(in_paths[i]))

\* The registry is as the report store was built: validate_item has not run
\* yet in this call.
Seeded == pc \in {"exec", "return"} /\ runs[split] = <<>>

\* C4: the registry seeded before any output is known maps every URL and
\* every existing file to None and every missing local path to the one
\* finding {type: "critical", message: "File path does not exists."}, with
\* its entries in the order of the locations.
C4_Seed ==
    Seeded =>
        /\ DistinctInFirstOrder(RegKeys(registry),
                                [i \in 1..Len(paths) |-> RegistryKey(paths[i])])
        /\ \A i \in 1..Len(paths) :
              \E e \in 1..Len(registry) :
                  /\ registry[e].key = RegistryKey(paths[i])
                  /\ registry[e].value =
                        IF IsUrl(paths[i]) \/ Exists(paths[i])
                        THEN None
                        ELSE Findings(<<[type |-> "critical",
                                         message |->
                                             "File path does not exists."]>>)

C4_Witness ==
    /\ Seeded
    /\ paths = <<"/w/nope.html", "http://x">>
    /\ registry =
          <<[key |-> "/w/nope.html", value |-> Findings(<<MissingFinding>>)],
            [key |-> "http://x", value |-> None]>>

\* C5: once a process run of a validate call has failed, that run is the
\* call's last (the command is not run again, no run for a later location is
\* started) and the call has ended with that failure, returning no Registry.
C5_FirstFailureAborts ==
    \A sp \in Modes :
        \A j \in 1..Len(runs[sp]) :
            runs[sp][j].kind # "return" =>
                /\ j = Len(runs[sp])
                /\ result[sp].kind = "raised"
                /\ result[sp].value.kind = runs[sp][j].kind
                /\ ~(pc # "idle" /\ split = sp)

C5_Witness ==
    /\ Len(runs[TRUE]) = 2
    /\ runs[TRUE][1].kind = "return"
    /\ runs[TRUE][2].kind = "ValidatorError"
    /\ result[TRUE].kind = "raised"
    /\ Len(paths) = 2
    /\ pc = "idle"

\* The findings the payload holds for a key: its messages with that url, in
\* the order of the payload, without their url.
MatchedFindings(messages, key) ==
    LET Matches(m) == m.url = key
        ms == SelectSeq(messages, Matches)
    IN  [i \in 1..Len(ms) |-> [type |-> ms[i].type, message |-> ms[i].message]]

Reduced == pc # "idle" \/ \E sp \in Modes : result[sp].kind # "none"

LocationArgs(command) ==
    LET IsLocation(token) == token \in Locations
    IN  SelectSeq(command, IsLocation)

\* The validate call with this split value has ended.
Ended(sp) == result[sp].kind # "none" /\ ~(pc # "idle" /\ split = sp)

\* C12: a call with split=False makes exactly one process run, over the
\* whole reduced list in order; a call with split=True that returns has made
\* one run per reduced location, in order, each over that location alone;
\* and a run is started only when the output of every earlier run of the
\* call has been added to the report.
C12_Invocations ==
    /\ Ended(FALSE) =>
          /\ Len(runs[FALSE]) = 1
          /\ LocationArgs(runs[FALSE][1].command) = paths
    /\ Returned(TRUE) =>
          /\ Len(runs[TRUE]) = Len(paths)
          /\ \A k \in 1..Len(paths) :
                LocationArgs(runs[TRUE][k].command) = <<paths[k]>>
    /\ \A sp \in Modes :
          /\ adds[sp] <= Len(runs[sp])
          /\ Len(runs[sp]) <= adds[sp] + 1
          /\ (pc = "exec" /\ split = sp) => adds[sp] = Len(runs[sp])

C12_Witness ==
    /\ in_paths = <<"a.html", "http://x">>
    /\ Returned(TRUE)
    /\ Ended(FALSE)
    /\ Len(runs[TRUE]) = 2
    /\ adds[TRUE] = 2
    /\ LocationArgs(runs[TRUE][1].command) = <<"a.html">>
    /\ LocationArgs(runs[TRUE][2].command) = <<"http://x">>
    /\ LocationArgs(runs[FALSE][1].command) = <<"a.html", "http://x">>

\* C14: output of a run that ended with status 0 which is no JSON, or holds
\* no messages, is never followed by a further run or by a returned
\* Registry: once report.add has been given it, the validate call has ended
\* with the MalformedPayload error.
C14_MalformedAborts ==
    content.form # "object" =>
        \/ pc = "add"
        \/ /\ pc = "idle"
           /\ result[split].kind = "raised"
           /\ result[split].value.kind = "MalformedPayload"

C14_Witness ==
    /\ content.form = "nomessages"
    /\ pc = "idle"
    /\ split
    /\ Len(runs[TRUE]) = 2
    /\ adds[TRUE] = 1
    /\ result[TRUE].kind = "raised"
    /\ result[TRUE].value.kind = "MalformedPayload"

====
